---- MODULE Spec2Model ----
(***************************************************************************)
(* tokenflow: sliding-window rate limiter (src/lib/rate-limiter.ts),       *)
(* content-hash response cache (src/lib/cache.ts) and capped activity      *)
(* stream, all layered over one Redis store.                               *)
(*                                                                         *)
(* Time is in milliseconds.  Each await of a Redis command is one step of  *)
(* the calling handler; the store executes each command atomically.        *)
(***************************************************************************)
EXTENDS Integers, Sequences, FiniteSets, TLC

(***************************************************************************)
(* Bounds of the model.                                                    *)
(***************************************************************************)
MaxTime == 4
MaxLimit == 2
MaxWindow == 3
MaxChecks == 4
MaxErrChecks == 3
MaxErrTime == 2
MaxInputChecks == 2
NumRacers == 2
MaxRaceChecks == 4
MaxRaceTime == 1
ScenarioCalls == 12
ScenarioSpanMs == 1000
MaxTtl == 1
MaxCacheSecs == 1
MaxLookups == 2
ScenarioAppends == 150
ScenarioRead == 200
CapRead == 1000
MaxNodeEntries == 100
MaxOps == 3
MaxRecords == 2
MaxKeys == 11
MaxFrameChecks == 2
MaxAttempts == 44
MaxTrips == 4
MaxRacingAppends == 3

\* Default arguments of checkRateLimit.
DefaultLimit == 10
DefaultWindowMs == 60000
MAX_STREAM_LENGTH == 100
DefaultCount == 20

\* Caller identities: Ids are well-formed, "" is the empty (malformed) one.
Ids == {"X", "Y"}
AllIds == Ids \cup {""}
Procs == 1..NumRacers

NoExpiry == -1

\* Prompts and responses of the cache's callers.
Payloads == {"", "hello"}
Responses == {"", "ok"}

\* The prompt whose stores and lookups are recorded in lastStore and lastLookup.
Watched == "hello"

\* A null reply of the store (no such key).
Null == "(nil)"
NoStore == [err |-> "never"]
NoLookup == [err |-> "never"]
NoRecent == [err |-> "never"]
NoStats == [err |-> "never"]

\* let redis: Redis | null = null
NoClient == 0

\* No store command has been issued, no GET of the stats route is in flight, no response
\* has been sent.
NoCommand == [state |-> "none", waited |-> 0]
NoRoute == [pc |-> "idle", file |-> 0]
NoResponse == [status |-> 0]

\* An optional argument or field that is not there.
Undefined == "(undefined)"

\* The events callers pass to addActivityEvent, in the order a scenario cycles through.
LogEvents == <<
  [type |-> "request", ip |-> "X", prompt |-> "hello", cached |-> FALSE, blocked |-> FALSE],
  [type |-> "cache_hit", ip |-> "Y", prompt |-> Undefined, cached |-> TRUE, blocked |-> FALSE],
  [type |-> "rate_limited", ip |-> "X", prompt |-> "", cached |-> FALSE, blocked |-> TRUE] >>

\* Events with and without their optional properties prompt, cached and blocked.
TripEvents == <<
  [type |-> "request", ip |-> "X", prompt |-> "hello", cached |-> FALSE, blocked |-> FALSE],
  [type |-> "cache_hit", ip |-> "Y", prompt |-> "", cached |-> TRUE, blocked |-> FALSE],
  [type |-> "rate_limited", ip |-> "X", blocked |-> TRUE, cached |-> FALSE],
  [type |-> "cache_miss", ip |-> "Y"] >>

NoEvent == [type |-> "", ip |-> "", prompt |-> "", cached |-> "", blocked |-> "", timestamp |-> <<>>]

VARIABLES
  clock,      \* Date.now() and the store's clock
  zsets,      \* 'ratelimit:<id>' sorted sets: id -> set of [m: member, s: score]
  zexp,       \* expiry time of 'ratelimit:<id>', NoExpiry when it carries none
  limit,      \* argument limit of the checks of this run
  windowMs,   \* argument windowMs of the checks of this run
  pc,         \* position of each in-flight checkRateLimit call
  key,        \* its argument key
  now,        \* its const now
  count,      \* its const count
  purged,     \* number of entries its purge removed
  raced,      \* another call inserted between this call's purge and its count
  stale,      \* entries with score <= windowStart that its count included
  calls,      \* number of calls entered so far
  hist,       \* results of the completed calls, in completion order
  cache,      \* 'cache:<sha256>' strings: key -> [val, exp]
  counters,   \* 'stats:cache:hits' and 'stats:cache:misses': name -> decimal string or Null
  cpc,        \* position of each in-flight getCachedResponse call
  cprompt,    \* its argument prompt
  cached,     \* its const cached
  getAt,      \* time at which its GET ran
  lookups,    \* number of getCachedResponse calls entered so far
  lastStore,  \* the latest setCachedResponse call for the prompt Watched: arguments, time
  lastLookup, \* the lookup of Watched that returned last since then: result, time, failure
  failed,     \* number of getCachedResponse calls that ended in the catch block
  stream,     \* 'activity:stream': entries [id, fields], oldest first
  lastId,     \* the stream's last generated entry id <<ms, seq>>
  nodeSize,   \* entries per node of the stream (the store's stream-node-max-entries)
  appends,    \* number of addActivityEvent calls entered so far
  apc,        \* position of the in-flight addActivityEvent call
  aevent,     \* its const eventData
  appended,   \* the entries XADD has added so far, in order
  recent,     \* the latest getRecentActivity call since the last append: count, result, failure
  spc,        \* position of the in-flight getRateLimitStats call
  skeys,      \* its const keys
  lastStats,  \* the latest getRateLimitStats or getCacheStats call: result, failure
  thrown,     \* operations that let an exception escape to their caller
  redis,      \* the module's let redis: the client handle, NoClient while null
  constructed, \* number of new Redis(...) evaluations so far
  handles,    \* the handles getRedisClient has returned so far
  status,     \* the client's connection status
  retryAttempts, \* the client's count of consecutive failed connection attempts
  delay,      \* the delay retryStrategy returned for the latest failed attempt
  command,    \* the latest store command: state, failed attempts it has waited through
  route,      \* position of the in-flight GET of the stats route, and which route file
  reply,      \* the latest response of the stats route
  racing,     \* the eventData of the addActivityEvent calls of concurrent callers in flight
  found       \* number of getCachedResponse reads that found an entry

rlVars == <<zsets, zexp, limit, windowMs, pc, key, now, count, purged, raced, stale, calls, hist>>
cacheVars == <<cache, counters, cpc, cprompt, cached, getAt, lookups, lastStore, lastLookup, failed>>
logVars == <<stream, lastId, nodeSize, appends, apc, aevent, appended, recent>>
statVars == <<spc, skeys, lastStats>>
clientVars == <<redis, constructed, handles>>
retryVars == <<status, retryAttempts, delay, command>>
routeVars == <<route, reply>>
raceVars == <<racing, found>>
sideVars == <<retryVars, routeVars, raceVars>>
vars == <<clock, rlVars, cacheVars, logVars, statVars, thrown, clientVars, sideVars>>

(***************************************************************************)
(* Store commands on one sorted set (ioredis / Redis semantics).           *)
(***************************************************************************)
\* ZREMRANGEBYSCORE key min max: both ends of the range are inclusive.
ZRemRangeByScoreExclusive(z, min, max) == {e \in z : ~(min <= e.s /\ e.s < max)}

ZRemRangeByScore(z, min, max) == {e \in z : ~(min <= e.s /\ e.s <= max)}

ZCard(z) == Cardinality(z)

\* ZADD key score member: a member already present keeps one entry and takes the new score.
ZAdd(z, score, member) == {e \in z : e.m # member} \cup {[m |-> member, s |-> score]}

\* Order of a sorted set: by score, equal scores by member.
ZLess(a, b) ==
  \/ a.s < b.s
  \/ a.s = b.s /\ (a.m[1] < b.m[1] \/ (a.m[1] = b.m[1] /\ a.m[2] < b.m[2]))

RECURSIVE ToDigits(_)
\* A score as the store returns it: the decimal digits of a non-negative integer.
ToDigits(n) == IF n < 10 THEN <<n>> ELSE Append(ToDigits(n \div 10), n % 10)

RECURSIVE ParseInt(_)
\* parseInt of a digit string.
ParseInt(d) == IF Len(d) = 0 THEN 0 ELSE ParseInt(SubSeq(d, 1, Len(d) - 1)) * 10 + d[Len(d)]

\* The entry of the greatest score.
ZRangeLastWithScores(z) ==
  IF z = {} THEN <<>>
  ELSE LET last == CHOOSE e \in z : \A o \in z : o = e \/ ZLess(o, e)
       IN <<last.m, ToDigits(last.s)>>

\* ZRANGE key 0 0 WITHSCORES: <<member, score>> of the first entry, <<>> when empty.
ZRangeFirstWithScores(z) ==
  IF z = {} THEN <<>>
  ELSE LET first == CHOOSE e \in z : \A o \in z : o = e \/ ZLess(e, o)
       IN <<first.m, ToDigits(first.s)>>

\* Math.random(): a value no entry of this timestamp carries yet.
FreshRandom(z, t) == CHOOSE r \in 0..Cardinality(z) :
  /\ \A e \in z : e.m # <<t, r>>
  /\ \A q \in 0..Cardinality(z) : q < r => \E e \in z : e.m = <<t, q>>

\* `${now}-${Math.random()}`
MemberToken(t, r) == <<t, r>>

\* A key whose expiry time has passed is gone: the store drops it once clock > expiry.
Expired(id, t) == zexp[id] # NoExpiry /\ t > zexp[id]

(***************************************************************************)
(* Store commands on strings, and the cache's keys.                        *)
(***************************************************************************)
MsPerSecond == 1000

\* createHash('sha256').update(prompt).digest('hex'), on the prompts of the model.
Sha256HexOfEmpty(prompt) == "e3b0c44298fc1c149afbf4c8996fb92427ae41e4649b934ca495991b7852b855"

Sha256Hex(prompt) ==
  CASE prompt = "" -> "e3b0c44298fc1c149afbf4c8996fb92427ae41e4649b934ca495991b7852b855"
    [] prompt = "hello" -> "2cf24dba5fb0a30e26e83b2ac5b9e29e1b161e5c1fa7425e73043362938b9824"

\* return `cache:${hash}`
getCacheKey(prompt) == "cache:" \o Sha256Hex(prompt)

CacheKeys == {getCacheKey(prompt) : prompt \in Payloads}

NoEntry == [val |-> Null, exp |-> NoExpiry]

\* A string key whose expiry time has passed is gone.
StringExpired(entry, t) == entry.exp # NoExpiry /\ t > entry.exp

\* GET key
Get(c, k) == IF StringExpired(c[k], clock) THEN Null ELSE c[k].val

\* SETEX key seconds value is rejected by the store unless seconds is positive.
SetExRejects(seconds) == seconds <= 0

\* SETEX key seconds value: the value replaces any old one and expires after seconds.
SetExNoExpiry(c, k, seconds, value) == [c EXCEPT ![k] = [val |-> value, exp |-> NoExpiry]]

\* The value replaces the old one but an entry that is there keeps its expiry time.
SetExKeepTtl(c, k, seconds, value) ==
  [c EXCEPT ![k] = [val |-> value,
                    exp |-> IF @.exp # NoExpiry THEN @.exp ELSE clock + seconds * MsPerSecond]]

SetEx(c, k, seconds, value) ==
  [c EXCEPT ![k] = [val |-> value, exp |-> clock + seconds * MsPerSecond]]

\* INCR key: a missing key counts from 0.
IncrByTwo(v) == IF v = Null THEN ToDigits(2) ELSE ToDigits(ParseInt(v) + 2)

Incr(v) == IF v = Null THEN ToDigits(1) ELSE ToDigits(ParseInt(v) + 1)

\* if (cached): null and the empty string are falsy.
Truthy(v) == v # Null /\ v # ""

(***************************************************************************)
(* try { ... } catch (error) { console.error(...); return ... }            *)
(***************************************************************************)
\* The operations whose exception reaches the caller when a store command of op rejects.
Rethrown(op) == {op}

\* Every store command is awaited inside the try block and the catch block returns.
Escaped(op) == {}

(***************************************************************************)
(* getRedisClient and the client's reconnection (ioredis)                  *)
(***************************************************************************)
\* Every call constructs.
AlwaysConstructs(r) == TRUE

\* if (!redis)
NeedsClient(r) == r = NoClient

\* getRedisClient(): if (!redis) { redis = new Redis(...) } return redis.  The n-th client
\* constructed is the handle n.
GetRedisClient ==
  /\ redis' = IF NeedsClient(redis) THEN constructed + 1 ELSE redis
  /\ constructed' = IF NeedsClient(redis) THEN constructed + 1 ELSE constructed
  /\ handles' = handles \cup {IF NeedsClient(redis) THEN constructed + 1 ELSE redis}

\* maxRetriesPerRequest: 3
MaxRetriesPerRequest == 3

\* The delay grows without a cap.
RetryStrategyUncapped(times) == times * 50

\* retryStrategy(times) { const delay = Math.min(times * 50, 2000); return delay; }
RetryStrategy(times) == IF times * 50 < 2000 THEN times * 50 ELSE 2000

\* An operation issues a store command on the client: it runs when the connection is ready
\* and otherwise waits in the client's offline queue.
SendCommand ==
  /\ command.state # "queued"
  /\ GetRedisClient
  /\ command' = [state |-> IF status = "ready" THEN "done" ELSE "queued", waited |-> 0]
  /\ UNCHANGED <<clock, rlVars, cacheVars, logVars, statVars, thrown>>
  /\ UNCHANGED <<status, retryAttempts, delay, routeVars>>
  /\ UNCHANGED raceVars

\* A connection attempt succeeds: the count of attempts restarts and the queued command
\* runs.
ConnectOk ==
  /\ redis # NoClient
  /\ status # "ready"
  /\ status' = "ready"
  /\ retryAttempts' = 0
  /\ command' = IF command.state = "queued" THEN [command EXCEPT !.state = "done"] ELSE command
  /\ UNCHANGED <<clock, rlVars, cacheVars, logVars, statVars, thrown, clientVars, delay, routeVars>>
  /\ UNCHANGED raceVars

\* The connection closes or an attempt to connect fails: the client schedules the next
\* attempt after retryStrategy(++retryAttempts) ms, and when retryAttempts is a multiple of
\* maxRetriesPerRequest + 1 it rejects the commands that wait (MaxRetriesPerRequestError).
CloseHandler ==
  /\ redis # NoClient
  /\ retryAttempts < MaxAttempts
  /\ status' = "reconnecting"
  /\ retryAttempts' = retryAttempts + 1
  /\ delay' = RetryStrategy(retryAttempts + 1)
  /\ command' = IF command.state # "queued" THEN command
                ELSE [state |-> IF (retryAttempts + 1) % (MaxRetriesPerRequest + 1) = 0
                                THEN "failed" ELSE "queued",
                      waited |-> command.waited + 1]
  /\ UNCHANGED <<clock, rlVars, cacheVars, logVars, statVars, thrown, clientVars, routeVars>>
  /\ UNCHANGED raceVars

(***************************************************************************)
(* checkRateLimit                                                          *)
(***************************************************************************)
\* const windowStart = now - windowMs
WindowStart(p) == now[p] - windowMs

\* if (count >= limit)
OverLimitOffByOne(c, lim) == c > lim

OverLimitDropped(c, lim) == FALSE

OverLimit(c, lim) == c >= lim

DeniedResultFromNow(p, oldest) ==
  [allowed |-> FALSE, remaining |-> 0, resetAt |-> now[p] + windowMs]

DeniedResult(p, oldest) ==
  [allowed |-> FALSE, remaining |-> 0,
   resetAt |-> IF Len(oldest) > 1 THEN ParseInt(oldest[2]) + windowMs ELSE now[p] + windowMs]

AllowedResult(p) ==
  [allowed |-> TRUE, remaining |-> limit - count[p] - 1, resetAt |-> now[p] + windowMs]

\* catch (error): fail open
FailOpenResultStrict(p) ==
  [allowed |-> FALSE, remaining |-> 0, resetAt |-> now[p] + windowMs]

FailOpenResult(p) ==
  [allowed |-> TRUE, remaining |-> limit, resetAt |-> now[p] + windowMs]

\* The call returns res; its locals die with it.  hist records the call's key, its now,
\* the time it returned, the store command that rejected ("none" when none did) and what
\* it returned.
Finish(p, res, errAt, observed) ==
  /\ pc' = [pc EXCEPT ![p] = "idle"]
  /\ key' = [key EXCEPT ![p] = ""]
  /\ now' = [now EXCEPT ![p] = 0]
  /\ count' = [count EXCEPT ![p] = 0]
  /\ purged' = [purged EXCEPT ![p] = 0]
  /\ raced' = [raced EXCEPT ![p] = FALSE]
  /\ stale' = [stale EXCEPT ![p] = 0]
  /\ hist' = IF observed
             THEN Append(hist, [id |-> key[p], now |-> now[p], done |-> clock,
                                errAt |-> errAt, res |-> res])
             ELSE hist
  /\ UNCHANGED <<calls, cacheVars, logVars, statVars>>
  /\ UNCHANGED <<clientVars, sideVars>>

\* The call is entered: now = Date.now().
Start(p, id, maxCalls) ==
  /\ pc[p] = "idle"
  /\ calls < maxCalls
  /\ calls' = calls + 1
  /\ pc' = [pc EXCEPT ![p] = "purge"]
  /\ key' = [key EXCEPT ![p] = id]
  /\ now' = [now EXCEPT ![p] = clock]
  /\ UNCHANGED <<clock, zsets, zexp, limit, windowMs, count, purged, raced, stale, hist, cacheVars, logVars, statVars, thrown>>
  /\ GetRedisClient
  /\ UNCHANGED sideVars

\* await redis.zremrangebyscore(rateLimitKey, 0, windowStart)
Purge(p) ==
  /\ pc[p] = "purge"
  /\ LET z == ZRemRangeByScore(zsets[key[p]], 0, WindowStart(p))
     IN /\ zsets' = [zsets EXCEPT ![key[p]] = z]
        /\ zexp' = [zexp EXCEPT ![key[p]] = IF z = {} THEN NoExpiry ELSE @]
        /\ purged' = [purged EXCEPT ![p] = Cardinality(zsets[key[p]] \ z)]
  /\ pc' = [pc EXCEPT ![p] = "count"]
  /\ UNCHANGED <<clock, limit, windowMs, key, now, count, raced, stale, calls, hist, cacheVars, logVars, statVars, thrown>>
  /\ UNCHANGED <<clientVars, sideVars>>

\* const count = await redis.zcard(rateLimitKey); if (count >= limit)
Count(p) ==
  /\ pc[p] = "count"
  /\ count' = [count EXCEPT ![p] = ZCard(zsets[key[p]])]
  /\ stale' = [stale EXCEPT ![p] = Cardinality({e \in zsets[key[p]] : e.s <= WindowStart(p)})]
  /\ pc' = [pc EXCEPT ![p] = IF OverLimit(ZCard(zsets[key[p]]), limit) THEN "oldest" ELSE "add"]
  /\ UNCHANGED <<clock, zsets, zexp, limit, windowMs, key, now, purged, raced, calls, hist, cacheVars, logVars, statVars, thrown>>
  /\ UNCHANGED <<clientVars, sideVars>>

\* The denied call refreshes the collection's expiry.
OldestRefreshing(p, observed) ==
  /\ pc[p] = "oldest"
  /\ zexp' = [zexp EXCEPT ![key[p]] = IF zsets[key[p]] = {} THEN @ ELSE clock + windowMs]
  /\ Finish(p, DeniedResult(p, ZRangeFirstWithScores(zsets[key[p]])), "none", observed)
  /\ UNCHANGED <<clock, zsets, limit, windowMs, thrown>>

\* const oldest = await redis.zrange(rateLimitKey, 0, 0, 'WITHSCORES'); return denied
Oldest(p, observed) ==
  /\ pc[p] = "oldest"
  /\ Finish(p, DeniedResult(p, ZRangeFirstWithScores(zsets[key[p]])), "none", observed)
  /\ UNCHANGED <<clock, zsets, zexp, limit, windowMs, thrown>>

\* An insertion into the collection of every identity.
AddToEvery(p) ==
  /\ pc[p] = "add"
  /\ zsets' = [id \in DOMAIN zsets |->
                 ZAdd(zsets[id], now[p], MemberToken(now[p], FreshRandom(zsets[id], now[p])))]
  /\ pc' = [pc EXCEPT ![p] = "expire"]
  /\ UNCHANGED <<clock, zexp, limit, windowMs, key, now, count, purged, raced, stale, calls, hist, cacheVars, logVars, statVars, thrown>>
  /\ UNCHANGED <<clientVars, sideVars>>

\* await redis.zadd(rateLimitKey, now, `${now}-${Math.random()}`)
Add(p) ==
  /\ pc[p] = "add"
  /\ zsets' = [zsets EXCEPT ![key[p]] =
                 ZAdd(@, now[p], MemberToken(now[p], FreshRandom(@, now[p])))]
  /\ raced' = [q \in Procs |->
                 IF q # p /\ pc[q] = "count" /\ key[q] = key[p] THEN TRUE ELSE raced[q]]
  /\ pc' = [pc EXCEPT ![p] = "expire"]
  /\ UNCHANGED <<clock, zexp, limit, windowMs, key, now, count, purged, stale, calls, hist, cacheVars, logVars, statVars, thrown>>
  /\ UNCHANGED <<clientVars, sideVars>>

\* await redis.pexpire(rateLimitKey, windowMs); return allowed.
\* PEXPIRE does nothing to a missing key and deletes the key on a timeout <= 0.
Expire(p, observed) ==
  /\ pc[p] = "expire"
  /\ IF zsets[key[p]] = {}
     THEN UNCHANGED <<zsets, zexp>>
     ELSE IF windowMs <= 0
          THEN /\ zsets' = [zsets EXCEPT ![key[p]] = {}]
               /\ zexp' = [zexp EXCEPT ![key[p]] = NoExpiry]
          ELSE /\ zexp' = [zexp EXCEPT ![key[p]] = clock + windowMs]
               /\ UNCHANGED zsets
  /\ Finish(p, AllowedResult(p), "none", observed)
  /\ UNCHANGED <<clock, limit, windowMs, thrown>>

\* The awaited store command rejects: the catch block returns the fail-open result.
StoreError(p, observed) ==
  /\ pc[p] \in {"purge", "count", "oldest", "add", "expire"}
  /\ Finish(p, FailOpenResult(p), pc[p], observed)
  /\ thrown' = thrown \cup Escaped("check")
  /\ UNCHANGED <<clock, zsets, zexp, limit, windowMs>>

\* d milliseconds pass; keys whose expiry time has passed are dropped.
Advance(d) ==
  /\ clock' = clock + d
  /\ zsets' = [id \in AllIds |-> IF Expired(id, clock + d) THEN {} ELSE zsets[id]]
  /\ zexp' = [id \in AllIds |-> IF Expired(id, clock + d) THEN NoExpiry ELSE zexp[id]]
  /\ cache' = [k \in CacheKeys |-> IF StringExpired(cache[k], clock + d) THEN NoEntry ELSE cache[k]]
  /\ UNCHANGED <<limit, windowMs, pc, key, now, count, purged, raced, stale, calls, hist>>
  /\ UNCHANGED <<counters, cpc, cprompt, cached, getAt, lookups, lastStore, lastLookup, failed>>
  /\ UNCHANGED <<logVars, statVars, thrown>>
  /\ UNCHANGED <<clientVars, sideVars>>

\* One millisecond passes.
Tick(maxTime) ==
  /\ clock < maxTime
  /\ Advance(1)

\* The calls of Scenario A all fall within ScenarioSpanMs of the first.
ScenarioTick ==
  /\ clock + ScenarioSpanMs \div 4 <= DefaultWindowMs + ScenarioSpanMs
  /\ Advance(ScenarioSpanMs \div 4)

(***************************************************************************)
(* getCacheKey, getCachedResponse, setCachedResponse                       *)
(***************************************************************************)
\* setCachedResponse: await redis.setex(key, ttlSeconds, response); a rejection is logged
\* and swallowed.
SetCachedResponse(prompt, response, ttlSeconds) ==
  /\ \A p \in Procs : cpc[p] \in {"idle", "off"}
  /\ cache' = IF SetExRejects(ttlSeconds) THEN cache
              ELSE SetEx(cache, getCacheKey(prompt), ttlSeconds, response)
  /\ lastStore' = IF prompt = Watched
                  THEN [resp |-> response, ttl |-> ttlSeconds, at |-> clock,
                        over |-> Get(cache, getCacheKey(prompt)) # Null]
                  ELSE lastStore
  /\ lastLookup' = IF prompt = Watched THEN NoLookup ELSE lastLookup
  /\ thrown' = IF SetExRejects(ttlSeconds) THEN thrown \cup Escaped("store") ELSE thrown
  /\ UNCHANGED <<clock, rlVars, logVars, statVars, counters, cpc, cprompt, cached, getAt, lookups, failed>>
  /\ GetRedisClient
  /\ UNCHANGED sideVars

\* The awaited SETEX rejects because the store cannot be reached: nothing is written.
SetCachedError(prompt) ==
  /\ \A p \in Procs : cpc[p] \in {"idle", "off"}
  /\ lastStore' = IF prompt = Watched THEN [err |-> "setex"] ELSE lastStore
  /\ lastLookup' = IF prompt = Watched THEN NoLookup ELSE lastLookup
  /\ thrown' = thrown \cup Escaped("store")
  /\ UNCHANGED <<clock, rlVars, logVars, statVars, cache, counters, cpc, cprompt, cached, getAt, lookups, failed>>
  /\ GetRedisClient
  /\ UNCHANGED sideVars

\* getCachedResponse is entered.
LookupStart(p, prompt) ==
  /\ cpc[p] = "idle"
  /\ lookups < MaxLookups
  /\ lookups' = lookups + 1
  /\ cpc' = [cpc EXCEPT ![p] = "get"]
  /\ cprompt' = [cprompt EXCEPT ![p] = prompt]
  /\ UNCHANGED <<clock, rlVars, logVars, statVars, thrown, cache, counters, cached, getAt, lastStore, lastLookup, failed>>
  /\ GetRedisClient
  /\ UNCHANGED sideVars

\* The read restarts the time-to-live of an entry it finds, as if one more second were left.
LookupGetRefreshing(p) ==
  /\ cpc[p] = "get"
  /\ cached' = [cached EXCEPT ![p] = Get(cache, getCacheKey(cprompt[p]))]
  /\ getAt' = [getAt EXCEPT ![p] = clock]
  /\ cpc' = [cpc EXCEPT ![p] = "incr"]
  /\ cache' = IF Get(cache, getCacheKey(cprompt[p])) = Null THEN cache
              ELSE [cache EXCEPT ![getCacheKey(cprompt[p])].exp = clock + MsPerSecond]
  /\ found' = IF Get(cache, getCacheKey(cprompt[p])) # Null THEN found + 1 ELSE found
  /\ UNCHANGED <<clock, rlVars, logVars, statVars, thrown, counters, cprompt, lookups, lastStore, lastLookup, failed>>
  /\ UNCHANGED <<clientVars, retryVars, routeVars, racing>>

\* const cached = await redis.get(key)
LookupGet(p) ==
  /\ cpc[p] = "get"
  /\ cached' = [cached EXCEPT ![p] = Get(cache, getCacheKey(cprompt[p]))]
  /\ getAt' = [getAt EXCEPT ![p] = clock]
  /\ cpc' = [cpc EXCEPT ![p] = "incr"]
  /\ found' = IF Get(cache, getCacheKey(cprompt[p])) # Null THEN found + 1 ELSE found
  /\ UNCHANGED <<clock, rlVars, logVars, statVars, thrown, cache, counters, cprompt, lookups, lastStore, lastLookup, failed>>
  /\ UNCHANGED <<clientVars, retryVars, routeVars, racing>>

\* getCachedResponse returns ret; its locals die with it.
LookupReturn(p, ret, errAt) ==
  /\ lastLookup' = IF cprompt[p] = Watched
                   THEN [ret |-> ret, at |-> getAt[p], err |-> errAt]
                   ELSE lastLookup
  /\ cpc' = [cpc EXCEPT ![p] = "idle"]
  /\ cprompt' = [cprompt EXCEPT ![p] = ""]
  /\ cached' = [cached EXCEPT ![p] = Null]
  /\ getAt' = [getAt EXCEPT ![p] = 0]
  /\ failed' = IF errAt = "none" THEN failed ELSE failed + 1
  /\ UNCHANGED <<clock, rlVars, logVars, statVars, cache, lookups, lastStore>>
  /\ UNCHANGED <<clientVars, sideVars>>

\* if (cached) await redis.incr('stats:cache:hits') else await redis.incr('stats:cache:misses');
\* return cached
LookupIncr(p) ==
  /\ cpc[p] = "incr"
  /\ LET name == IF Truthy(cached[p]) THEN "stats:cache:hits" ELSE "stats:cache:misses"
     IN counters' = [counters EXCEPT ![name] = Incr(@)]
  /\ LookupReturn(p, cached[p], "none")
  /\ UNCHANGED thrown

\* catch (error) { console.error(...); return null; }
LookupFailResultCached(p) == cached[p]

LookupFailResult(p) == Null

\* The awaited GET or INCR rejects: the catch block logs and returns null.
LookupError(p) ==
  /\ cpc[p] \in {"get", "incr"}
  /\ UNCHANGED counters
  /\ LookupReturn(p, LookupFailResult(p), cpc[p])
  /\ thrown' = thrown \cup Escaped("lookup")

\* The clock of the cache runs over each whole second and the millisecond after it, so
\* that two commands can lie less than, exactly, or more than a whole second apart.
SampleTimes == {k * MsPerSecond + o : k \in 0..MaxCacheSecs, o \in {0, 1}}

CacheTick ==
  /\ \E t \in SampleTimes : t > clock
  /\ Advance((CHOOSE t \in SampleTimes : t > clock /\ \A u \in SampleTimes : u > clock => t <= u)
             - clock)

(***************************************************************************)
(* Store commands on the stream 'activity:stream'.                         *)
(***************************************************************************)
\* XADD key ... '*': the generated id is <<ms, seq>>, above every id generated before.
NextId(last, t) == IF t > last[1] THEN <<t, 0>> ELSE <<last[1], last[2] + 1>>

\* No trimming at all.
XNoTrim(s, maxlen) == s

\* Trimming from the new end.
XTrimNewest(s, maxlen) == IF Len(s) > maxlen THEN SubSeq(s, 1, maxlen) ELSE s

\* MAXLEN ~ maxlen: the store drops whole nodes from the old end, and only while at least
\* maxlen entries remain after the drop.
RECURSIVE XTrimApprox(_, _)
XTrimApprox(s, maxlen) ==
  IF Len(s) - nodeSize >= maxlen
  THEN XTrimApprox(SubSeq(s, nodeSize + 1, Len(s)), maxlen)
  ELSE s

\* XADD key MAXLEN ~ maxlen * field value ...
XAdd(s, maxlen, entry) == XTrimApprox(Append(s, entry), maxlen)

\* The first entries of the stream, oldest first.
XRangeForward(s, cnt) ==
  IF cnt <= 0 THEN <<>>
  ELSE SubSeq(s, 1, IF cnt < Len(s) THEN cnt ELSE Len(s))

\* Every entry, newest first.
XRevRangeUncounted(s, cnt) == [i \in 1..Len(s) |-> s[Len(s) - i + 1]]

\* XREVRANGE key + - COUNT cnt: the newest entries, newest first; none when cnt <= 0.
XRevRange(s, cnt) ==
  IF cnt <= 0 THEN <<>>
  ELSE LET k == IF cnt < Len(s) THEN cnt ELSE Len(s)
       IN [i \in 1..k |-> s[Len(s) - i + 1]]

(***************************************************************************)
(* addActivityEvent, getRecentActivity                                     *)
(***************************************************************************)
\* const eventData = { type, ip, prompt: event.prompt || '', cached: event.cached ? '1' : '0',
\*                     blocked: event.blocked ? '1' : '0', timestamp: Date.now().toString() }
EventData(event, t) ==
  [type |-> event.type,
   ip |-> event.ip,
   prompt |-> IF "prompt" \in DOMAIN event /\ event.prompt # Undefined THEN event.prompt ELSE "",
   cached |-> IF "cached" \in DOMAIN event /\ event.cached THEN "1" ELSE "0",
   blocked |-> IF "blocked" \in DOMAIN event /\ event.blocked THEN "1" ELSE "0",
   timestamp |-> ToDigits(t)]

\* entries.map(([id, fields]) => ({ id, timestamp: parseInt(...), type, ip,
\*                                  prompt: event.prompt || undefined, cached: ... === '1', ... }))
ParseEntry(entry) ==
  [id |-> entry.id,
   timestamp |-> ParseInt(entry.fields.timestamp),
   type |-> entry.fields.type,
   ip |-> entry.fields.ip,
   prompt |-> IF entry.fields.prompt \in {"", Undefined} THEN Undefined ELSE entry.fields.prompt,
   cached |-> entry.fields.cached = "1",
   blocked |-> entry.fields.blocked = "1"]

\* The event of the n-th call of a scenario.
EventOf(n) == LogEvents[(n % Len(LogEvents)) + 1]

\* addActivityEvent is entered: eventData is built, timestamp = Date.now().
AppendStart(event, maxAppends) ==
  /\ apc = "idle"
  /\ appends < maxAppends
  /\ appends' = appends + 1
  /\ aevent' = EventData(event, clock)
  /\ apc' = "xadd"
  /\ recent' = NoRecent
  /\ UNCHANGED <<clock, rlVars, cacheVars, statVars, thrown, stream, lastId, nodeSize, appended>>
  /\ GetRedisClient
  /\ UNCHANGED sideVars

\* await redis.xadd(STREAM_KEY, 'MAXLEN', '~', MAX_STREAM_LENGTH, '*', ...)
AppendXadd ==
  /\ apc = "xadd"
  /\ LET entry == [id |-> NextId(lastId, clock), fields |-> aevent]
     IN /\ stream' = XAdd(stream, MAX_STREAM_LENGTH, entry)
        /\ lastId' = entry.id
        /\ appended' = Append(appended, entry)
  /\ apc' = "idle"
  /\ aevent' = NoEvent
  /\ UNCHANGED <<clock, rlVars, cacheVars, statVars, thrown, nodeSize, appends, recent>>
  /\ UNCHANGED <<clientVars, sideVars>>

\* The awaited XADD rejects: the catch block logs and the event is dropped.
AppendError ==
  /\ apc = "xadd"
  /\ apc' = "idle"
  /\ aevent' = NoEvent
  /\ thrown' = thrown \cup Escaped("append")
  /\ UNCHANGED <<clock, rlVars, cacheVars, statVars, stream, lastId, nodeSize, appends, appended,
                 recent>>
  /\ UNCHANGED <<clientVars, sideVars>>

\* addActivityEvent is entered by one of several concurrent callers: eventData is built,
\* timestamp = Date.now(), and the call waits to issue its XADD.
AppendStartRacing(event, maxAppends) ==
  /\ appends < maxAppends
  /\ appends' = appends + 1
  /\ racing' = racing \cup {[n |-> appends + 1, data |-> EventData(event, clock)]}
  /\ recent' = NoRecent
  /\ UNCHANGED <<clock, rlVars, cacheVars, statVars, thrown, stream, lastId, nodeSize, apc, aevent,
                 appended>>
  /\ GetRedisClient
  /\ UNCHANGED <<retryVars, routeVars, found>>

\* The XADD of one of the calls in flight reaches the store.
AppendXaddRacing ==
  /\ \E c \in racing :
       LET entry == [id |-> NextId(lastId, clock), fields |-> c.data]
       IN /\ stream' = XAdd(stream, MAX_STREAM_LENGTH, entry)
          /\ lastId' = entry.id
          /\ appended' = Append(appended, entry)
          /\ racing' = racing \ {c}
  /\ UNCHANGED <<clock, rlVars, cacheVars, statVars, thrown, nodeSize, appends, apc, aevent, recent>>
  /\ UNCHANGED <<clientVars, retryVars, routeVars, found>>

\* What getRecentActivity returns from its catch block.
RecentFailResultPartial(s, cnt) == [i \in 1..Len(XRevRange(s, cnt)) |-> ParseEntry(XRevRange(s, cnt)[i])]

RecentFailResult(s, cnt) == <<>>

\* getRecentActivity(cnt): const entries = await redis.xrevrange(STREAM_KEY, '+', '-', 'COUNT',
\* cnt); return entries.map(...)
RecentRead(cnt) ==
  /\ apc = "idle"
  /\ LET entries == XRevRange(stream, cnt)
     IN recent' = [count |-> cnt, err |-> "none",
                   res |-> [i \in 1..Len(entries) |-> ParseEntry(entries[i])]]
  /\ UNCHANGED <<clock, rlVars, cacheVars, statVars, thrown, stream, lastId, nodeSize, appends,
                 apc, aevent, appended>>
  /\ GetRedisClient
  /\ UNCHANGED sideVars

\* The awaited XREVRANGE rejects: the catch block logs and returns [].
RecentError(cnt) ==
  /\ apc = "idle"
  /\ recent' = [count |-> cnt, err |-> "xrevrange", res |-> RecentFailResult(stream, cnt)]
  /\ thrown' = thrown \cup Escaped("recent")
  /\ UNCHANGED <<clock, rlVars, cacheVars, statVars, stream, lastId, nodeSize, appends,
                 apc, aevent, appended>>
  /\ GetRedisClient
  /\ UNCHANGED sideVars

(***************************************************************************)
(* getRateLimitStats, getCacheStats                                        *)
(***************************************************************************)
\* KEYS 'ratelimit:*': the identities whose sorted set exists.
RateLimitKeys == {id \in DOMAIN zsets : zsets[id] # {} /\ ~Expired(id, clock)}

\* Identities of many clients, and some of the orders in which KEYS can list the keys S of
\* such clients: the rotations of one order and of its reverse.
ManyIds == <<"10.0.0.1", "10.0.0.2", "10.0.0.3", "10.0.0.4", "10.0.0.5", "10.0.0.6",
             "10.0.0.7", "10.0.0.8", "10.0.0.9", "10.0.0.10", "10.0.0.11", "10.0.0.12">>

SomeOrders(S) ==
  LET In(x) == x \in S
      base == SelectSeq(ManyIds, In)
      n == Len(base)
  IN {[i \in 1..n |-> base[((i + r - 1) % n) + 1]] : r \in 0..(n - 1)}
     \cup {[i \in 1..n |-> base[n - (((i + r - 1) % n) + 1) + 1]] : r \in 0..(n - 1)}
     \cup {base}

\* The orders in which KEYS can list a set of keys.
Orders(S) == {q \in [1..Cardinality(S) -> S] : \A i, j \in 1..Cardinality(S) : i # j => q[i] # q[j]}

\* Array.prototype.slice(from, to)
Slice(q, from, to) == SubSeq(q, from + 1, IF to < Len(q) THEN to ELSE Len(q))

\* No sorting.
Unsorted(q) == q

\* Array.prototype.sort((a, b) => b.requests - a.requests): stable, most requests first.
RECURSIVE SortByRequests(_)
SortByRequests(q) ==
  IF Len(q) <= 1 THEN q
  ELSE LET rest == SortByRequests(SubSeq(q, 2, Len(q)))
           ahead == {i \in 1..Len(rest) : rest[i].requests > q[1].requests}
           k == Cardinality(ahead)
       IN SubSeq(rest, 1, k) \o <<q[1]>> \o SubSeq(rest, k + 1, Len(rest))

\* parseInt(v || '0')
ParseCounter(v) == IF v = Null THEN 0 ELSE ParseInt(v)

\* The results the catch blocks return.
RateLimitStatsFail == [totalKeys |-> 0, topConsumers |-> <<>>]
CacheStatsFail == [hits |-> 0, misses |-> 0, total |-> 0, hitRatio |-> <<0, 1>>, cachedKeys |-> 0]

\* const consumerData = await Promise.all(keys.slice(0, 10).map(... redis.zcard(key) ...));
\* return { totalKeys: keys.length, topConsumers: consumerData.sort(...).slice(0, 5) }
RateLimitStatsOf(keys) ==
  LET top == Slice(keys, 0, 10)
      consumerData == [i \in 1..Len(top) |->
                         [ip |-> top[i],
                          requests |-> IF Expired(top[i], clock) THEN 0 ELSE ZCard(zsets[top[i]])]]
  IN [totalKeys |-> Len(keys), topConsumers |-> Slice(SortByRequests(consumerData), 0, 5)]

\* getRateLimitStats is entered.
RlStatsStart ==
  /\ spc = "idle"
  /\ spc' = "keys"
  /\ lastStats' = NoStats
  /\ UNCHANGED <<clock, rlVars, cacheVars, logVars, thrown, skeys>>
  /\ GetRedisClient
  /\ UNCHANGED sideVars

\* const keys = await redis.keys('ratelimit:*'), the reply in one of the given orders
RlStatsKeysIn(orders) ==
  /\ spc = "keys"
  /\ skeys' \in orders
  /\ spc' = "zcard"
  /\ UNCHANGED <<clock, rlVars, cacheVars, logVars, thrown, lastStats>>
  /\ UNCHANGED <<clientVars, sideVars>>

RlStatsKeys == RlStatsKeysIn(Orders(RateLimitKeys))

\* const consumerData = await Promise.all(keys.slice(0, 10).map(... redis.zcard(key) ...));
\* return { totalKeys: keys.length, topConsumers: consumerData.sort(...).slice(0, 5) }
RlStatsCards ==
  /\ spc = "zcard"
  /\ lastStats' = [op |-> "topConsumers", err |-> "none", keys |-> skeys,
                   res |-> RateLimitStatsOf(skeys)]
  /\ spc' = "idle"
  /\ skeys' = <<>>
  /\ UNCHANGED <<clock, rlVars, cacheVars, logVars, thrown>>
  /\ UNCHANGED <<clientVars, sideVars>>

\* The awaited KEYS or a ZCARD rejects: the catch block returns the empty statistics.
RlStatsError ==
  /\ spc \in {"keys", "zcard"}
  /\ lastStats' = [op |-> "topConsumers", err |-> spc, res |-> RateLimitStatsFail]
  /\ spc' = "idle"
  /\ skeys' = <<>>
  /\ thrown' = thrown \cup Escaped("topConsumers")
  /\ UNCHANGED <<clock, rlVars, cacheVars, logVars>>
  /\ UNCHANGED <<clientVars, sideVars>>

\* The share of misses.
HitRatioOfMisses(hits, total) == IF total > 0 THEN <<(total - hits) * 100, total>> ELSE <<0, 1>>

\* const hitRatio = total > 0 ? (hits / total) * 100 : 0, kept as the fraction
\* <<hits * 100, total>>.
HitRatio(hits, total) == IF total > 0 THEN <<hits * 100, total>> ELSE <<0, 1>>

\* The two counters and KEYS 'cache:*', read together (Promise.all).
CacheStatsNow ==
  LET hits == ParseCounter(counters["stats:cache:hits"])
      misses == ParseCounter(counters["stats:cache:misses"])
      cacheKeys == Cardinality({k \in CacheKeys : Get(cache, k) # Null})
      total == hits + misses
  IN [hits |-> hits, misses |-> misses, total |-> total,
      hitRatio |-> HitRatio(hits, total), cachedKeys |-> cacheKeys]

\* getCacheStats
CacheStats ==
  /\ spc = "idle"
  /\ lastStats' = [op |-> "stats", err |-> "none", res |-> CacheStatsNow]
  /\ UNCHANGED <<clock, rlVars, cacheVars, logVars, thrown, spc, skeys>>
  /\ GetRedisClient
  /\ UNCHANGED sideVars

\* One of the three awaited commands rejects: the catch block returns the zero statistics.
CacheStatsError ==
  /\ spc = "idle"
  /\ lastStats' = [op |-> "stats", err |-> "get", res |-> CacheStatsFail]
  /\ thrown' = thrown \cup Escaped("stats")
  /\ UNCHANGED <<clock, rlVars, cacheVars, logVars, spc, skeys>>
  /\ GetRedisClient
  /\ UNCHANGED sideVars

(***************************************************************************)
(* Specifications                                                          *)
(***************************************************************************)
\* No handler is in flight and nothing but the sorted sets' keys and the callers of the
\* cache is decided.
InitLocals ==
  /\ key = [p \in Procs |-> ""]
  /\ now = [p \in Procs |-> 0]
  /\ count = [p \in Procs |-> 0]
  /\ purged = [p \in Procs |-> 0]
  /\ raced = [p \in Procs |-> FALSE]
  /\ stale = [p \in Procs |-> 0]
  /\ calls = 0
  /\ hist = <<>>
  /\ cache = [k \in CacheKeys |-> NoEntry]
  /\ counters = [n \in {"stats:cache:hits", "stats:cache:misses"} |-> Null]
  /\ cprompt = [p \in Procs |-> ""]
  /\ cached = [p \in Procs |-> Null]
  /\ getAt = [p \in Procs |-> 0]
  /\ lookups = 0
  /\ lastStore = NoStore
  /\ lastLookup = NoLookup
  /\ failed = 0
  /\ stream = <<>>
  /\ lastId = <<0, 0>>
  /\ appends = 0
  /\ apc = "idle"
  /\ aevent = NoEvent
  /\ appended = <<>>
  /\ recent = NoRecent
  /\ spc = "idle"
  /\ skeys = <<>>
  /\ lastStats = NoStats
  /\ thrown = {}
  /\ redis = NoClient
  /\ constructed = 0
  /\ handles = {}
  /\ status = "connecting"
  /\ retryAttempts = 0
  /\ delay = 0
  /\ command = NoCommand
  /\ route = NoRoute
  /\ reply = NoResponse
  /\ racing = {}
  /\ found = 0

\* One caller of the cache.
InitHandlers ==
  /\ InitLocals
  /\ cpc = [p \in Procs |-> IF p = 1 THEN "idle" ELSE "off"]

InitKeys ==
  /\ zsets = [id \in AllIds |-> {}]
  /\ zexp = [id \in AllIds |-> NoExpiry]
  /\ InitHandlers


\* The store of the specifications that leave the stream alone.
InitStore ==
  /\ InitKeys
  /\ nodeSize = MaxNodeEntries

\* Sequential checks of one identity, valid arguments, store errors possible.
Init ==
  /\ InitStore
  /\ clock = 0
  /\ limit \in 1..MaxLimit
  /\ windowMs \in 1..MaxWindow
  /\ pc = [p \in Procs |-> IF p = 1 THEN "idle" ELSE "off"]

Next ==
  \/ Start(1, "X", MaxErrChecks)
  \/ Purge(1)
  \/ Count(1)
  \/ Oldest(1, TRUE)
  \/ Add(1)
  \/ Expire(1, TRUE)
  \/ StoreError(1, TRUE)
  \/ Tick(MaxErrTime)

Spec == Init /\ [][Next]_vars

\* Sequential checks of one identity, valid arguments, no store error.
NextSeq ==
  \/ Start(1, "X", MaxChecks)
  \/ Purge(1)
  \/ Count(1)
  \/ Oldest(1, TRUE)
  \/ Add(1)
  \/ Expire(1, TRUE)
  \/ Tick(MaxTime)

SpecSeq == Init /\ [][NextSeq]_vars

\* Concurrent checks: every caller's commands interleave with the others'.  The results
\* are not recorded; the properties of this specification are about the store.
InitConc ==
  /\ InitStore
  /\ clock = 0
  /\ limit \in 1..MaxLimit
  /\ windowMs \in 1..MaxRaceTime
  /\ pc = [p \in Procs |-> "idle"]

NextConc ==
  \/ \E p \in Procs : Start(p, "X", MaxRaceChecks)
  \/ \E p \in Procs : Purge(p)
  \/ \E p \in Procs : Count(p)
  \/ \E p \in Procs : Oldest(p, FALSE)
  \/ \E p \in Procs : Add(p)
  \/ \E p \in Procs : Expire(p, FALSE)
  \/ Tick(MaxRaceTime)

SpecConc == InitConc /\ [][NextConc]_vars

\* Scenario A: the default limit and window, one identity, sequential calls, no store error.
InitScenarioA ==
  /\ InitStore
  /\ clock = DefaultWindowMs
  /\ limit = DefaultLimit
  /\ windowMs = DefaultWindowMs
  /\ pc = [p \in Procs |-> IF p = 1 THEN "idle" ELSE "off"]

NextScenarioA ==
  \/ Start(1, "X", ScenarioCalls)
  \/ Purge(1)
  \/ Count(1)
  \/ Oldest(1, TRUE)
  \/ Add(1)
  \/ Expire(1, TRUE)
  \/ ScenarioTick

SpecScenarioA == InitScenarioA /\ [][NextScenarioA]_vars

\* Callers that pass any arguments, malformed ones included.
InitInputs ==
  /\ InitStore
  /\ clock = 0
  /\ limit \in -1..1
  /\ windowMs \in -1..1
  /\ pc = [p \in Procs |-> IF p = 1 THEN "idle" ELSE "off"]

NextInputs ==
  \/ \E id \in {"", "X"} : Start(1, id, MaxInputChecks)
  \/ Purge(1)
  \/ Count(1)
  \/ Oldest(1, TRUE)
  \/ Add(1)
  \/ Expire(1, TRUE)
  \/ StoreError(1, TRUE)
  \/ Tick(MaxErrTime)

SpecInputs == InitInputs /\ [][NextInputs]_vars

\* One caller of the cache: stores and lookups one after another, ttl 0 included; the
\* store commands of a lookup may fail.
InitCache ==
  /\ InitStore
  /\ clock = 0
  /\ limit = DefaultLimit
  /\ windowMs = DefaultWindowMs
  /\ pc = [p \in Procs |-> "off"]

NextCache ==
  \/ \E prompt \in Payloads, response \in Responses, ttl \in 0..MaxTtl :
        SetCachedResponse(prompt, response, ttl)
  \/ \E prompt \in Payloads : LookupStart(1, prompt)
  \/ LookupGet(1)
  \/ LookupIncr(1)
  \/ LookupError(1)
  \/ CacheTick

SpecCache == InitCache /\ [][NextCache]_vars

\* One caller of the activity log on an empty stream: the appends of a scenario one after
\* another, reads in between, no store error, under every node size of the store.
InitLog ==
  /\ InitKeys
  /\ clock = 0
  /\ limit = DefaultLimit
  /\ windowMs = DefaultWindowMs
  /\ pc = [p \in Procs |-> "off"]
  /\ nodeSize \in 1..MaxNodeEntries

RecentCounts == {0, 1, DefaultCount, ScenarioRead, CapRead}

NextLog ==
  \/ AppendStart(EventOf(appends + 1), ScenarioAppends)
  \/ AppendXadd
  \/ \E cnt \in RecentCounts : RecentRead(cnt)

SpecLog == InitLog /\ [][NextLog]_vars

\* Reads of a stream that holds records whose optional fields are partly missing: a field
\* that is not in the record reads as undefined in the parse loop.
PartialFields ==
  {[type |-> "request", ip |-> "X", prompt |-> pr, cached |-> ca, blocked |-> bl,
    timestamp |-> ToDigits(0)] :
     pr \in {Undefined, "hello"}, ca \in {Undefined, "1"}, bl \in {Undefined, "0"}}

PartialStreams ==
  UNION {[1..n -> PartialFields] : n \in 0..MaxRecords}

InitRecords ==
  /\ InitKeys
  /\ clock = 0
  /\ limit = DefaultLimit
  /\ windowMs = DefaultWindowMs
  /\ pc = [p \in Procs |-> "off"]
  /\ nodeSize = MaxNodeEntries

\* The stream holds records f that lack optional fields.
PartialRecords(f) ==
  /\ appends = 0
  /\ stream' = [i \in 1..Len(f) |-> [id |-> <<0, i>>, fields |-> f[i]]]
  /\ appended' = stream'
  /\ lastId' = <<0, Len(f)>>
  /\ appends' = MaxRecords
  /\ UNCHANGED <<clock, rlVars, cacheVars, statVars, thrown, nodeSize, apc, aevent, recent>>
  /\ UNCHANGED <<clientVars, sideVars>>

NextRecords ==
  \/ \E f \in PartialStreams : PartialRecords(f)
  \/ appends = MaxRecords /\ \E cnt \in 0..MaxRecords : RecentRead(cnt)
  \/ appends = MaxRecords /\ \E cnt \in 0..MaxRecords : RecentError(cnt)

SpecRecords == InitRecords /\ [][NextRecords]_vars

\* getRateLimitStats over a store that holds the keys of up to MaxKeys clients, each with
\* one or two entries; every store command may fail.
RequestCounts == {1, 2}

TopIds == {ManyIds[i] : i \in 1..Len(ManyIds)}

Requests(c) == {[m |-> MemberToken(0, r), s |-> 0] : r \in 1..c}

InitTop ==
  /\ InitHandlers
  /\ clock = 0
  /\ limit = DefaultLimit
  /\ windowMs = DefaultWindowMs
  /\ pc = [p \in Procs |-> "off"]
  /\ nodeSize = MaxNodeEntries
  /\ \E n \in 0..MaxKeys : \E c \in [1..n -> RequestCounts] :
       /\ n <= Len(ManyIds)
       /\ zsets = [id \in TopIds |-> IF \E i \in 1..n : ManyIds[i] = id
                                     THEN Requests(c[CHOOSE i \in 1..n : ManyIds[i] = id])
                                     ELSE {}]
       /\ zexp = [id \in TopIds |-> IF \E i \in 1..n : ManyIds[i] = id
                                    THEN DefaultWindowMs ELSE NoExpiry]

NextTop ==
  \/ RlStatsStart
  \/ RlStatsKeysIn(SomeOrders(RateLimitKeys))
  \/ RlStatsCards
  \/ RlStatsError

SpecTop == InitTop /\ [][NextTop]_vars

\* Checks of two identities by two concurrent callers, while the cache and the activity log
\* are in use; the store commands of a check may fail.
InitFrame ==
  /\ InitStore
  /\ clock = 0
  /\ limit = 1
  /\ windowMs = MaxRaceTime
  /\ pc = [p \in Procs |-> "idle"]

NextFrame ==
  \/ \E p \in 1..2, id \in Ids : Start(p, id, MaxFrameChecks)
  \/ \E p \in 1..2 : Purge(p)
  \/ \E p \in 1..2 : Count(p)
  \/ \E p \in 1..2 : Oldest(p, FALSE)
  \/ \E p \in 1..2 : Add(p)
  \/ \E p \in 1..2 : Expire(p, FALSE)
  \/ \E p \in 1..2 : StoreError(p, FALSE)
  \/ SetCachedResponse(Watched, "ok", 1)
  \/ lookups = 0 /\ LookupStart(1, Watched)
  \/ LookupGet(1)
  \/ LookupIncr(1)
  \/ AppendStart(EventOf(appends + 1), 1)
  \/ AppendXadd

SpecFrame == InitFrame /\ [][NextFrame]_vars

(***************************************************************************)
(* GET of the stats route, in its two route files                          *)
(***************************************************************************)
\* The two route files: the first answers 503 when the ping fails, the second answers with
\* its demo data.
RouteFiles == {1, 2}

\* The metrics of a response that come from the store.
Metrics == {"rateLimit", "cache", "activity", "keys"}

\* { error: 'Redis not connected', connected: false }, status 503
NotConnected == [status |-> 503, connected |-> FALSE, demo |-> FALSE, pinged |-> FALSE, read |-> {}]

\* { error: 'Failed to fetch stats', connected: false }, status 500
FetchFailed == [status |-> 500, connected |-> FALSE, demo |-> FALSE, pinged |-> TRUE, read |-> {}]

\* The demo data of the second route file; pinged and read record that the ping failed and
\* that nothing was read.
DemoData ==
  [status |-> 200, connected |-> TRUE, demo |-> TRUE, pinged |-> FALSE, read |-> {},
   rateLimit |-> [totalKeys |-> 3,
                  topConsumers |-> <<[ip |-> "192.168.1.1", requests |-> 42],
                                     [ip |-> "10.0.0.5", requests |-> 23],
                                     [ip |-> "192.168.1.3", requests |-> 17]>>,
                  blockedRequests |-> 2, requestsPerMinute |-> 47],
   cache |-> [hits |-> 142, misses |-> 38, total |-> 180, hitRatio |-> <<794, 10>>,
              cachedKeys |-> 25],
   activity |-> 10,
   keyDistribution |-> [rateLimit |-> 3, cache |-> 25, stats |-> 4, activity |-> 1],
   totalKeys |-> 33]

\* getRecentActivity(cnt), all of it
RecentActivityNow(cnt) ==
  LET entries == XRevRange(stream, cnt)
  IN [i \in 1..Len(entries) |-> ParseEntry(entries[i])]

\* GET is entered: const redis = getRedisClient().
RouteStart(file) ==
  /\ route.pc = "idle"
  /\ route' = [pc |-> "ping", file |-> file]
  /\ GetRedisClient
  /\ UNCHANGED <<clock, rlVars, cacheVars, logVars, statVars, thrown, retryVars, reply>>
  /\ UNCHANGED raceVars

\* await redis.ping() resolves (ok) or rejects; if (!connected) the first file answers 503
\* and the second answers with its demo data.
RoutePing(ok) ==
  /\ route.pc = "ping"
  /\ route' = IF ok THEN [route EXCEPT !.pc = "gather"] ELSE NoRoute
  /\ reply' = IF ok THEN reply
              ELSE IF route.file = 1 THEN NotConnected
              ELSE DemoData
  /\ UNCHANGED <<clock, rlVars, cacheVars, logVars, statVars, thrown, clientVars, retryVars>>
  /\ UNCHANGED raceVars

\* await Promise.all([getRateLimitStats(), getCacheStats(), getRecentActivity(20),
\* redis.keys('*')]), taken as one step; each of the three operations either reads the
\* store or returns what its catch block returns.  Then the response is built.
RouteGather(rlOk, cacheOk, recentOk) ==
  /\ route.pc = "gather"
  /\ \E order \in Orders(RateLimitKeys) :
       LET rateLimitStats == IF rlOk THEN RateLimitStatsOf(order) ELSE RateLimitStatsFail
           cacheStats == IF cacheOk THEN CacheStatsNow ELSE CacheStatsFail
           recentActivity == IF recentOk THEN RecentActivityNow(20)
                             ELSE RecentFailResult(stream, 20)
           blockedCount == Cardinality({i \in DOMAIN recentActivity : recentActivity[i].blocked})
           recentRequests == Cardinality({i \in DOMAIN recentActivity :
                                            /\ recentActivity[i].timestamp > clock - 60000
                                            /\ recentActivity[i].type = "request"})
           keyTypes == [rateLimit |-> Cardinality(RateLimitKeys),
                        cache |-> Cardinality({k \in CacheKeys : Get(cache, k) # Null}),
                        stats |-> Cardinality({n \in DOMAIN counters : counters[n] # Null}),
                        activity |-> IF stream = <<>> THEN 0 ELSE 1]
       IN reply' = [status |-> 200, connected |-> TRUE, demo |-> FALSE, pinged |-> TRUE,
                    read |-> {"keys"} \cup (IF rlOk THEN {"rateLimit"} ELSE {})
                               \cup (IF cacheOk THEN {"cache"} ELSE {})
                               \cup (IF recentOk THEN {"activity"} ELSE {}),
                    rateLimit |-> [totalKeys |-> rateLimitStats.totalKeys,
                                   topConsumers |-> rateLimitStats.topConsumers,
                                   blockedRequests |-> blockedCount,
                                   requestsPerMinute |-> recentRequests],
                    cache |-> cacheStats,
                    activity |-> Len(recentActivity),
                    keyDistribution |-> keyTypes,
                    totalKeys |-> keyTypes.rateLimit + keyTypes.cache + keyTypes.stats
                                  + keyTypes.activity]
  /\ route' = NoRoute
  /\ UNCHANGED <<clock, rlVars, cacheVars, logVars, statVars, thrown, clientVars, retryVars>>
  /\ UNCHANGED raceVars

\* redis.keys('*') rejects: the outer catch block answers 500.
RouteError ==
  /\ route.pc = "gather"
  /\ reply' = FetchFailed
  /\ route' = NoRoute
  /\ UNCHANGED <<clock, rlVars, cacheVars, logVars, statVars, thrown, clientVars, retryVars>>
  /\ UNCHANGED raceVars

\* One caller appends events, some without optional properties, and reads the latest one
\* back, while time passes.
TripEventOf(n) == TripEvents[((n - 1) % Len(TripEvents)) + 1]

NextTrip ==
  \/ AppendStart(TripEventOf(appends + 1), MaxTrips)
  \/ AppendXadd
  \/ apc = "idle" /\ RecentRead(1)
  \/ Tick(MaxTime)

SpecTrip == InitLog /\ [][NextTrip]_vars

\* Concurrent callers append while time passes; the log is read in between.
InitLogConc ==
  /\ InitStore
  /\ clock = 0
  /\ limit = DefaultLimit
  /\ windowMs = DefaultWindowMs
  /\ pc = [p \in Procs |-> "off"]

NextLogConc ==
  \/ AppendStartRacing(EventOf(appends + 1), MaxRacingAppends)
  \/ AppendXaddRacing
  \/ RecentRead(DefaultCount)
  \/ Tick(MaxTime)

SpecLogConc == InitLogConc /\ [][NextLogConc]_vars

\* Concurrent lookups of one prompt, stores in between, time passing, no store error.
InitLookups ==
  /\ zsets = [id \in AllIds |-> {}]
  /\ zexp = [id \in AllIds |-> NoExpiry]
  /\ InitLocals
  /\ cpc = [p \in Procs |-> "idle"]
  /\ nodeSize = MaxNodeEntries
  /\ clock = 0
  /\ limit = DefaultLimit
  /\ windowMs = DefaultWindowMs
  /\ pc = [p \in Procs |-> "off"]

NextLookups ==
  \/ \E response \in Responses : SetCachedResponse(Watched, response, MaxTtl)
  \/ \E p \in Procs : LookupStart(p, Watched)
  \/ \E p \in Procs : LookupGet(p)
  \/ \E p \in Procs : LookupIncr(p)
  \/ CacheTick

SpecLookups == InitLookups /\ [][NextLookups]_vars

\* Sequential checks of one identity while time passes, and getRateLimitStats between them.
NextStats ==
  \/ spc = "idle" /\ Start(1, "X", MaxErrChecks)
  \/ Purge(1)
  \/ Count(1)
  \/ Oldest(1, TRUE)
  \/ Add(1)
  \/ Expire(1, TRUE)
  \/ Tick(MaxTime)
  \/ pc[1] = "idle" /\ RlStatsStart
  \/ RlStatsKeys
  \/ RlStatsCards
  \/ RlStatsError

SpecStats == Init /\ [][NextStats]_vars

\* Store commands issued on the client while its connection comes and goes.  Reconnection
\* attempts are timer-driven: an attempt that is due is made, and it succeeds or fails.
InitRetry ==
  /\ InitStore
  /\ clock = 0
  /\ limit = 1
  /\ windowMs = MaxWindow
  /\ pc = [p \in Procs |-> IF p = 1 THEN "idle" ELSE "off"]

NextRetry ==
  \/ SendCommand
  \/ ConnectOk
  \/ CloseHandler

SpecRetry == InitRetry /\ [][NextRetry]_vars /\ WF_vars(ConnectOk \/ CloseHandler)

\* The stats route is requested between the operations of one caller.
InitRoute ==
  /\ InitStore
  /\ clock = 0
  /\ limit = 1
  /\ windowMs = MaxWindow
  /\ pc = [p \in Procs |-> IF p = 1 THEN "idle" ELSE "off"]

RouteQuiet ==
  /\ pc[1] = "idle" /\ cpc[1] = "idle" /\ apc = "idle" /\ route.pc = "idle"
  /\ calls + lookups + appends < MaxOps

NextRoute ==
  \/ RouteQuiet /\ Start(1, "X", MaxOps)
  \/ Purge(1)
  \/ Count(1)
  \/ Oldest(1, TRUE)
  \/ Add(1)
  \/ Expire(1, TRUE)
  \/ RouteQuiet /\ lastStore = NoStore /\ SetCachedResponse(Watched, "ok", MaxTtl)
  \/ RouteQuiet /\ LookupStart(1, Watched)
  \/ LookupGet(1)
  \/ LookupIncr(1)
  \/ RouteQuiet /\ AppendStart(EventOf(appends + 1), MaxOps)
  \/ AppendXadd
  \/ \E file \in RouteFiles : RouteQuiet /\ RouteStart(file)
  \/ \E ok \in BOOLEAN : RoutePing(ok)
  \/ \E rlOk, cacheOk, recentOk \in BOOLEAN : RouteGather(rlOk, cacheOk, recentOk)
  \/ RouteError

SpecRoute == InitRoute /\ [][NextRoute]_vars

\* One caller that runs the operations of the three components one after another, each
\* store command of which may fail.
Quiet == pc[1] = "idle" /\ cpc[1] = "idle" /\ apc = "idle" /\ spc = "idle"

\* The caller has operations left to start.
Budget == calls + lookups + appends < MaxOps

InitOps ==
  /\ InitStore
  /\ clock = 0
  /\ limit = 1
  /\ windowMs = MaxWindow
  /\ pc = [p \in Procs |-> IF p = 1 THEN "idle" ELSE "off"]

NextOps ==
  \/ Quiet /\ Budget /\ Start(1, "X", MaxOps)
  \/ Purge(1)
  \/ Count(1)
  \/ Oldest(1, TRUE)
  \/ Add(1)
  \/ Expire(1, TRUE)
  \/ StoreError(1, TRUE)
  \/ Quiet /\ SetCachedResponse(Watched, "ok", MaxTtl)
  \/ Quiet /\ SetCachedError(Watched)
  \/ Quiet /\ Budget /\ LookupStart(1, Watched)
  \/ LookupGet(1)
  \/ LookupIncr(1)
  \/ LookupError(1)
  \/ Quiet /\ Budget /\ AppendStart(EventOf(appends + 1), MaxOps)
  \/ AppendXadd
  \/ AppendError
  \/ Quiet /\ RecentRead(DefaultCount)
  \/ Quiet /\ RecentError(DefaultCount)
  \/ Quiet /\ RlStatsStart
  \/ RlStatsKeys
  \/ RlStatsCards
  \/ RlStatsError
  \/ Quiet /\ CacheStats
  \/ Quiet /\ CacheStatsError

SpecOps == InitOps /\ [][NextOps]_vars

(***************************************************************************)
(* Properties of checkRateLimit                                            *)
(***************************************************************************)
Calls == 1..Len(hist)

\* No call up to and including the j-th to complete met a store error.
NoStoreErrorUpTo(j) == \A i \in 1..j : hist[i].errAt = "none"

\* Entries of id that are live at the current time.
LiveEntries(id) == {e \in zsets[id] : e.s > clock - windowMs}

\* Earlier admitted calls of the same identity that, together with call j, lie within an
\* interval shorter than windowMs: from their Date.now() to the return of call j.
AdmittedWithinWindowBefore(j) ==
  {i \in 1..(j - 1) : /\ hist[i].id = hist[j].id
                      /\ hist[i].res.allowed
                      /\ hist[j].done - hist[i].now < windowMs}

\* C1. Window correctness (deny): sequential checks, no store error; when limit calls of an
\* identity were admitted and the next call of that identity returns less than windowMs
\* after the first of them was made, that call is denied.
C1_WindowDeny ==
  \A j \in Calls :
    NoStoreErrorUpTo(j) /\ Cardinality(AdmittedWithinWindowBefore(j)) >= limit
      => ~hist[j].res.allowed

\* C2. At-most-limit: sequential checks, no store error; in every state the entries of an
\* identity with score > clock - windowMs number at most limit.
C2_AtMostLimit ==
  NoStoreErrorUpTo(Len(hist)) => Cardinality(LiveEntries("X")) <= limit

C2_Witness ==
  /\ NoStoreErrorUpTo(Len(hist))
  /\ limit >= 2
  /\ Cardinality(LiveEntries("X")) = limit
  /\ \E j \in Calls : ~hist[j].res.allowed

\* C3. Bounded over-admission: with NumRacers callers whose commands interleave in any order,
\* the live entries of the identity never number more than limit + NumRacers.
C3_BoundedOverAdmission == Cardinality(LiveEntries("X")) <= limit + NumRacers

\* The race happened: more live entries than limit.
C3_Witness == Cardinality(LiveEntries("X")) > limit

\* The latest earlier call of the same identity as call j, 0 when there is none.
PrevCall(j) ==
  LET earlier == {i \in 1..(j - 1) : hist[i].id = hist[j].id}
  IN IF earlier = {} THEN 0 ELSE CHOOSE i \in earlier : \A k \in earlier : k <= i

\* C4. Window correctness (recovery): a call made at least windowMs after the previous call
\* of its identity, and meeting no store error, is admitted with remaining = limit - 1.
C4_WindowRecovery ==
  \A j \in Calls :
    /\ PrevCall(j) # 0
    /\ hist[j].now - hist[PrevCall(j)].now >= windowMs
    /\ hist[j].errAt = "none"
    => hist[j].res.allowed /\ hist[j].res.remaining = limit - 1

\* The wait is exactly windowMs and the call before it had been denied.
C4_Witness ==
  \E j \in Calls :
    /\ PrevCall(j) # 0
    /\ hist[j].now - hist[PrevCall(j)].now = windowMs
    /\ ~hist[PrevCall(j)].res.allowed
    /\ hist[j].errAt = "none"
    /\ hist[j].res.allowed /\ hist[j].res.remaining = limit - 1

\* C5 as stated. Purge monotonicity: in any check, no entry with score <= now - windowMs
\* is in the count the check compares against limit.
C5_PurgeMonotonicity_AnyCheck == \A p \in Procs : stale[p] = 0

\* C5, amended. In a check during which no other call inserts an entry for the identity
\* between the check's purge and its count, no entry with score <= now - windowMs is in
\* the count the check compares against limit.
C5_PurgeMonotonicity == \A p \in Procs : ~raced[p] => stale[p] = 0

\* A check whose purge removed an entry has counted, undisturbed, the entries that stayed.
C5_Witness ==
  \E p \in Procs :
    /\ pc[p] \in {"add", "oldest"}
    /\ ~raced[p]
    /\ purged[p] >= 1
    /\ count[p] >= 1
    /\ stale[p] = 0

\* C6. Fail open: a call in which a store command rejects, whichever command it is, returns
\* allowed = true, remaining = limit and resetAt = now + windowMs.
C6_FailOpen ==
  \A j \in Calls :
    hist[j].errAt # "none"
      => /\ hist[j].res.allowed = TRUE
         /\ hist[j].res.remaining = limit
         /\ hist[j].res.resetAt = hist[j].now + windowMs

\* The oldest-entry read of a full collection rejects.
C6_Witness ==
  \E j \in Calls :
    /\ hist[j].errAt = "oldest"
    /\ Cardinality(zsets[hist[j].id]) >= limit
    /\ hist[j].res.allowed

\* C7. Scenario A: limit 10, window 60000 ms, sequential calls of one identity within one
\* second: calls 1..10 are admitted with remaining 9, 8, ..., 0 and every later call is
\* denied with the resetAt of call 11.
C7_ScenarioA ==
  \A j \in Calls :
    IF j <= DefaultLimit
    THEN hist[j].res.allowed /\ hist[j].res.remaining = DefaultLimit - j
    ELSE ~hist[j].res.allowed /\ hist[j].res.resetAt = hist[DefaultLimit + 1].res.resetAt

\* All twelve calls are done; calls 11 and 12 were made at different times.
C7_Witness ==
  /\ Len(hist) = ScenarioCalls
  /\ hist[DefaultLimit + 1].now < hist[ScenarioCalls].now
  /\ hist[1].now < hist[2].now
  /\ hist[ScenarioCalls].res.resetAt = hist[1].now + DefaultWindowMs

\* C8. In every outcome (admitted, denied, fail-open) remaining is an integer with
\* 0 <= remaining <= limit.
C8_RemainingInRange ==
  \A j \in Calls :
    /\ hist[j].res.remaining \in Int
    /\ 0 <= hist[j].res.remaining
    /\ hist[j].res.remaining <= limit

\* The three outcomes have all occurred.
C8_Witness ==
  /\ \E j \in Calls : hist[j].errAt # "none"
  /\ \E j \in Calls : hist[j].errAt = "none" /\ hist[j].res.allowed
  /\ \E j \in Calls : ~hist[j].res.allowed

\* Malformed arguments of a call: empty identity, limit <= 0 or windowMs <= 0.
Malformed(id) == id = "" \/ limit <= 0 \/ windowMs <= 0

\* C9. A call with malformed arguments is rejected before any store command: it never gets
\* past its first command and never returns an admission result.
C9_MalformedRejected ==
  /\ \A p \in Procs : pc[p] \notin {"idle", "off"} /\ Malformed(key[p]) => pc[p] = "purge"
  /\ \A j \in Calls : ~Malformed(hist[j].id)

(***************************************************************************)
(* Properties of the response cache                                        *)
(***************************************************************************)
\* A lookup of Watched has returned, without a store failure, since the latest
\* setCachedResponse call for Watched.
LookupAfterStore ==
  /\ lastLookup # NoLookup
  /\ lastLookup.err = "none"
  /\ lastStore # NoStore

\* Milliseconds between that store and the lookup's read.
Elapsed == lastLookup.at - lastStore.at

\* C10 as stated. Round trip: for every payload, result and ttl, a lookup immediately after
\* store(p, r, ttl) returns r, and a lookup once ttl seconds have elapsed with no store in
\* between returns absent.
C10_RoundTrip_EveryTtl ==
  LookupAfterStore =>
    /\ Elapsed = 0 => lastLookup.ret = lastStore.resp
    /\ Elapsed >= lastStore.ttl * MsPerSecond => lastLookup.ret = Null

\* C10, amended. Round trip: for every payload, every result and every whole ttl >= 1, with
\* the store reachable, a lookup less than ttl seconds after store(p, r, ttl) (immediately
\* after it, in particular) returns r, and a lookup more than ttl seconds after it with no
\* store in between returns absent.
C10_RoundTrip ==
  LookupAfterStore /\ lastStore.ttl >= 1 =>
    /\ Elapsed < lastStore.ttl * MsPerSecond => lastLookup.ret = lastStore.resp
    /\ Elapsed > lastStore.ttl * MsPerSecond => lastLookup.ret = Null

\* A lookup after the entry's expiry returned absent, after an earlier lookup had hit.
C10_Witness ==
  /\ LookupAfterStore
  /\ lastStore.ttl >= 1
  /\ lastStore.resp = "ok"
  /\ Elapsed > lastStore.ttl * MsPerSecond
  /\ lastLookup.ret = Null
  /\ counters["stats:cache:hits"] # Null

\* The two counters as numbers, and the lookups in flight.
Hits == ParseCounter(counters["stats:cache:hits"])
Misses == ParseCounter(counters["stats:cache:misses"])
InFlight == Cardinality({p \in Procs : cpc[p] \in {"get", "incr"}})

\* C11 as stated. Counter exclusivity: for any sequence of lookups, hits + misses equals
\* the number of lookups performed.
C11_CounterExclusivity_AnyLookup == Hits + Misses = lookups - InFlight

\* C11, amended. Counter exclusivity: every lookup whose store commands all succeed
\* increments exactly one counter and a lookup that ends in the catch block increments
\* none, so hits + misses equals the number of lookups that returned without a store failure.
C11_CounterExclusivity == Hits + Misses = lookups - InFlight - failed

\* Two lookups have returned, one through the catch block, one counted.
C11_Witness == lookups = 2 /\ InFlight = 0 /\ failed = 1 /\ Hits + Misses = 1

\* C12. A lookup whose store commands succeed increments the hit counter when its read found
\* an entry, whatever the stored string, and the miss counter when it found none.
C12_HitWhenPresent ==
  [][\A p \in Procs :
       cpc[p] = "incr" /\ cpc'[p] = "idle" /\ failed' = failed =>
         IF cached[p] # Null
         THEN /\ Hits' = Hits + 1
              /\ Misses' = Misses
         ELSE /\ Misses' = Misses + 1
              /\ Hits' = Hits]_<<cpc, failed>>

\* C13. Key determinism: two prompts have the same key exactly when they are the same
\* prompt, every key is 'cache:' followed by the 64 hex digits of the digest, and the step
\* of a lookup that computes the key leaves every key of the store as it was.
C13_KeyDeterminism ==
  [][/\ \A p1, p2 \in Payloads : (getCacheKey(p1) = getCacheKey(p2)) <=> (p1 = p2)
     /\ \A p1 \in Payloads : /\ SubSeq(getCacheKey(p1), 1, 6) = "cache:"
                             /\ Len(getCacheKey(p1)) = 6 + 64
     /\ \A p \in Procs : cpc[p] = "idle" /\ cpc'[p] = "get" =>
          UNCHANGED <<zsets, zexp, cache, counters, stream, lastId>>]_vars

\* A lookup of "hello" has computed its key while only the other prompt has an entry.
C13_Witness ==
  /\ cpc[1] = "get" /\ cprompt[1] = "hello"
  /\ Get(cache, getCacheKey("")) = "ok"
  /\ Get(cache, getCacheKey("hello")) = Null

\* C19. A lookup whose read or counter increment fails returns null, and the failure does
\* not reach its caller.
C19_LookupAbsentOnError ==
  /\ lastLookup # NoLookup /\ lastLookup.err # "none" => lastLookup.ret = Null
  /\ "lookup" \notin thrown

\* A lookup of a prompt that has an entry failed at its increment and returned null.
C19_Witness ==
  /\ lastLookup # NoLookup /\ lastLookup.err = "incr" /\ lastLookup.ret = Null
  /\ Get(cache, getCacheKey(Watched)) = "ok"

(***************************************************************************)
(* Properties of the activity log                                          *)
(***************************************************************************)
\* A read of the log that returned without a store failure; no append has started since.
ReadDone(cnt) == recent # NoRecent /\ recent.err = "none" /\ recent.count = cnt

ScenarioDone == appends = ScenarioAppends /\ apc = "idle"

C16_RecentOrder ==
  \A cnt \in RecentCounts :
    ReadDone(cnt) =>
      /\ Len(recent.res) <= cnt
      /\ Len(recent.res) = (IF cnt < Len(stream) THEN cnt ELSE Len(stream))
      /\ \A i \in 1..Len(recent.res) :
           recent.res[i] = ParseEntry(appended[Len(appended) - i + 1])

\* recent(20) returned 20 events of a log that has been trimmed.
C16_Witness ==
  /\ ReadDone(DefaultCount) /\ Len(recent.res) = DefaultCount
  /\ Len(stream) < Len(appended)

\* C17. Append-only: the log is a contiguous suffix, in append order and unmodified, of the
\* entries appended so far.
C17_AppendOnly ==
  \E k \in 0..Len(appended) : stream = SubSeq(appended, k + 1, Len(appended))

\* The capping has removed entries and the log still holds MAX_STREAM_LENGTH or more.
C17_Witness ==
  /\ Len(stream) < Len(appended)
  /\ Len(stream) >= MAX_STREAM_LENGTH

(***************************************************************************)
(* Properties of the error handling                                        *)
(***************************************************************************)
\* C18. No store error escapes: no operation lets an exception reach its caller, and an
\* operation whose store command failed returned its degraded result.
C18_NoErrorEscapes ==
  /\ thrown = {}
  /\ \A j \in Calls : hist[j].errAt # "none" => hist[j].res.allowed
  /\ lastLookup # NoLookup /\ lastLookup.err # "none" => lastLookup.ret = Null
  /\ recent # NoRecent /\ recent.err # "none" => recent.res = <<>>
  /\ lastStats # NoStats /\ lastStats.err # "none" =>
       lastStats.res = (IF lastStats.op = "stats" THEN CacheStatsFail ELSE RateLimitStatsFail)

\* A check, a lookup, a store, an append, a read of the log and a statistics call have each
\* failed.
C18_Witness ==
  /\ \E j \in Calls : hist[j].errAt # "none"
  /\ lastLookup # NoLookup /\ lastLookup.err # "none"
  /\ lastStore = [err |-> "setex"]
  /\ appends > Len(appended) /\ apc = "idle"
  /\ recent # NoRecent /\ recent.err # "none"
  /\ lastStats # NoStats /\ lastStats.err # "none"

\* C20. recent returns an empty sequence whenever its store read fails, whatever the log
\* holds.
C20_RecentEmptyOnError ==
  recent # NoRecent /\ recent.err # "none" => recent.res = <<>>

\* The read of a log that holds events failed.
C20_Witness ==
  /\ recent # NoRecent /\ recent.err # "none"
  /\ Len(stream) > 0

\* C21. A record that lacks optional fields is still returned by a read that does not
\* fail, and each missing field comes back as undefined rather than as a value.
C21_MissingFieldsAbsent ==
  \A cnt \in 0..MaxRecords :
    ReadDone(cnt) =>
      /\ Len(recent.res) = Len(XRevRange(stream, cnt))
      /\ \A i \in 1..Len(recent.res) :
           LET fields == XRevRange(stream, cnt)[i].fields
           IN /\ fields.prompt = Undefined => recent.res[i].prompt = Undefined
              /\ fields.cached = Undefined => recent.res[i].cached \notin BOOLEAN
              /\ fields.blocked = Undefined => recent.res[i].blocked \notin BOOLEAN

\* The entry of the prompt Watched, and the entry its latest store asked for.
WatchedEntry == cache[getCacheKey(Watched)]
StoredEntry == [val |-> lastStore.resp, exp |-> lastStore.at + lastStore.ttl * MsPerSecond]

C23_CollectionExpires ==
  pc[1] = "idle" /\ Len(hist) > 0 /\ zsets["X"] # {} =>
    /\ zexp["X"] # NoExpiry
    /\ zexp["X"] <= hist[Len(hist)].done + windowMs

\* A getRateLimitStats call has returned without a store failure.
TopDone == lastStats # NoStats /\ lastStats.op = "topConsumers" /\ lastStats.err = "none"

\* The place of key x in the reply of KEYS.
Place(x) == CHOOSE i \in 1..Len(lastStats.keys) : lastStats.keys[i] = x

\* x comes before y among the consumers: more requests, or as many and listed earlier.
Before(x, y) ==
  \/ ZCard(zsets[x]) > ZCard(zsets[y])
  \/ ZCard(zsets[x]) = ZCard(zsets[y]) /\ Place(x) < Place(y)

\* C24. topConsumers holds at most 5 entries, all among the first 10 keys of the reply of
\* KEYS, each with the size of its collection, the larger first and equal ones in the order
\* of the reply, and none of those first 10 that was left out comes before one that is in;
\* on a store failure the result is the empty list with totalKeys 0.
C24_TopConsumers ==
  /\ TopDone =>
       LET top == lastStats.res.topConsumers
           first == {lastStats.keys[i] :
                       i \in 1..(IF Len(lastStats.keys) < 10 THEN Len(lastStats.keys) ELSE 10)}
           shown == {top[i].ip : i \in 1..Len(top)}
       IN /\ lastStats.res.totalKeys = Len(lastStats.keys)
          /\ Len(top) <= 5
          /\ Len(top) = (IF Cardinality(first) < 5 THEN Cardinality(first) ELSE 5)
          /\ shown \subseteq first
          /\ \A i \in 1..Len(top) : top[i].requests = ZCard(zsets[top[i].ip])
          /\ \A i, j \in 1..Len(top) : i < j => Before(top[i].ip, top[j].ip)
          /\ \A x \in first \ shown : \A y \in shown : Before(y, x)
  /\ lastStats # NoStats /\ lastStats.op = "topConsumers" /\ lastStats.err # "none" =>
       lastStats.res = [totalKeys |-> 0, topConsumers |-> <<>>]

\* More than 10 keys were listed, a key past the tenth has more requests than a consumer
\* that is shown, and two of the consumers shown have as many requests as each other.
C24_Witness ==
  /\ TopDone
  /\ Len(lastStats.keys) > 10
  /\ LET top == lastStats.res.topConsumers
     IN /\ \E i \in 11..Len(lastStats.keys) :
             ZCard(zsets[lastStats.keys[i]]) > top[Len(top)].requests
        /\ \E i \in 1..(Len(top) - 1) : top[i].requests = top[i + 1].requests

\* The identity of the check that process p is in, or enters, or leaves with this step.
CheckedId(p) == IF pc[p] = "idle" THEN key'[p] ELSE key[p]

\* C25. Frame of a check: a step of a check for one identity leaves the collection and the
\* expiry of every other identity, every cache entry, both counters and the activity stream
\* as they were.
C25_CheckFrame ==
  [][\A p \in Procs :
       pc'[p] # pc[p] =>
         /\ \A id \in DOMAIN zsets \ {CheckedId(p)} :
              zsets'[id] = zsets[id] /\ zexp'[id] = zexp[id]
         /\ cache' = cache
         /\ Hits' = Hits /\ Misses' = Misses
         /\ stream' = stream]_<<pc, zsets, zexp, cache, stream>>

\* A check has inserted for "Y" while "X" holds an entry, the cache holds an entry, a lookup
\* was counted and the stream holds an event.
C25_Witness ==
  /\ zsets["X"] # {} /\ zsets["Y"] # {}
  /\ \E p \in Procs : pc[p] = "expire" /\ key[p] = "Y"
  /\ Get(cache, getCacheKey(Watched)) = "ok"
  /\ Hits + Misses > 0
  /\ Len(stream) > 0

(***************************************************************************)
(* Properties of the client                                                *)
(***************************************************************************)
\* C26: a store command that waits while the connection is failing sees at most
\* 1 + maxRetriesPerRequest failed attempts and is rejected at the last of them; the delay
\* before attempt t is min(50 * t, 2000) ms, never above 2000 and never shrinking within
\* one outage; a waiting command always ends, rejected or run.
C26_BoundedRetries ==
  /\ [](/\ command.waited <= MaxRetriesPerRequest + 1
        /\ command.state = "queued" => command.waited <= MaxRetriesPerRequest
        /\ command.state = "failed" => command.waited >= 1
        /\ status = "reconnecting" =>
             /\ delay = (IF 50 * retryAttempts < 2000 THEN 50 * retryAttempts ELSE 2000)
             /\ delay <= 2000)
  /\ [][(retryAttempts > 0 /\ retryAttempts' > retryAttempts) => delay' >= delay]_retryVars
  /\ (command.state = "queued") ~> (command.state \in {"failed", "done"})

\* A command that waited through four failed attempts at the capped delay was rejected.
C26_Witness ==
  /\ command = [state |-> "failed", waited |-> MaxRetriesPerRequest + 1]
  /\ delay = 2000
  /\ status = "reconnecting"

\* C27: over any sequence of operations the client is constructed at most once and every
\* getRedisClient call returns that one handle.
C27_Singleton ==
  /\ constructed <= 1
  /\ Cardinality(handles) <= 1
  /\ redis # NoClient => handles = {redis}
  /\ (calls + lookups + appends > 0) => redis # NoClient

\* Three operations of three components have each called getRedisClient.
C27_Witness ==
  /\ calls > 0 /\ lookups > 0 /\ appends > 0
  /\ constructed = 1
  /\ handles = {redis}

(***************************************************************************)
(* Properties of getCacheStats and of the stats route                      *)
(***************************************************************************)
\* C28: a getCacheStats call returns total = hits + misses and hitRatio = hits / total * 100
\* when total > 0 and 0 otherwise, so 0 <= hitRatio <= 100; the call changes no counter, no
\* cache entry and nothing else in the store.
C28_CacheStats ==
  [][(lastStats' # lastStats /\ lastStats'.err # "never" /\ lastStats'.op = "stats") =>
       LET r == lastStats'.res
       IN /\ r.total = r.hits + r.misses
          /\ r.total > 0 => r.hitRatio[1] * r.total = r.hits * 100 * r.hitRatio[2]
          /\ r.total = 0 => r.hitRatio[1] = 0
          /\ 0 <= r.hitRatio[1] /\ r.hitRatio[1] <= 100 * r.hitRatio[2]
          /\ lastStats'.err = "none" =>
               /\ r.hits = ParseCounter(counters["stats:cache:hits"])
               /\ r.misses = ParseCounter(counters["stats:cache:misses"])
          /\ counters' = counters /\ cache' = cache
          /\ zsets' = zsets /\ zexp' = zexp /\ stream' = stream]_lastStats

\* Statistics were returned after one hit and one miss.
C28_Witness ==
  /\ lastStats.err = "none" /\ lastStats.op = "stats"
  /\ lastStats.res.hits = 1 /\ lastStats.res.misses = 1
  /\ lastStats.res.hitRatio = <<100, 2>>

\* C29: a response of the stats route reports connected = true only when the store answered
\* the ping of that request, and then every metric in it was read from the store during
\* that request.
C29_NoPlaceholder ==
  (reply.status # 0 /\ reply.connected) =>
    /\ reply.pinged
    /\ ~reply.demo
    /\ reply.read = Metrics

(***************************************************************************)
(* Properties of a denied check                                            *)
(***************************************************************************)
\* C30: a denied check returns remaining = 0 and resetAt = the least score left in the
\* collection when the oldest entry is read, plus windowMs; that entry survived the purge,
\* so resetAt lies after now; resetAt is now + windowMs only when the read finds no entry
\* (or the oldest entry carries the score now).
C30_DeniedReset ==
  [][\A p \in Procs :
       (/\ pc[p] = "oldest" /\ pc'[p] = "idle"
        /\ Len(hist') = Len(hist) + 1
        /\ hist'[Len(hist')].errAt = "none") =>
         LET r == hist'[Len(hist')].res
             left == zsets[key[p]]
         IN /\ r.allowed = FALSE
            /\ r.remaining = 0
            /\ left = {} => r.resetAt = now[p] + windowMs
            /\ left # {} =>
                 /\ \E e \in left : /\ \A o \in left : e.s <= o.s
                                    /\ r.resetAt = e.s + windowMs
                 /\ \A e \in left : e.s > WindowStart(p)
                 /\ r.resetAt > now[p]]_hist

\* A check was denied with a resetAt taken from an entry older than the check.
C30_Witness ==
  \E j \in 1..Len(hist) :
    /\ hist[j].errAt = "none"
    /\ ~hist[j].res.allowed
    /\ hist[j].res.resetAt < hist[j].now + windowMs
    /\ hist[j].res.resetAt > hist[j].now

(***************************************************************************)
(* Effects of admitted, denied and failed checks                           *)
(***************************************************************************)
\* C31: the insert of an admitted check adds exactly one entry scored at the call's now,
\* count is the cardinality read after the purge, and a check that returns admitted with no
\* store error reports remaining = limit - count - 1 and leaves its entry in the collection.
C31_AdmittedInserts ==
  [][\A p \in Procs :
       /\ (pc[p] = "count" /\ pc'[p] # "count") =>
            count'[p] = Cardinality(zsets[key[p]])
       /\ (pc[p] = "add" /\ pc'[p] = "expire") =>
            \E e \in zsets'[key[p]] : /\ e.s = now[p]
                                      /\ e \notin zsets[key[p]]
                                      /\ zsets'[key[p]] = zsets[key[p]] \cup {e}
       /\ (pc[p] = "expire" /\ pc'[p] = "idle" /\ Len(hist') > Len(hist)
              /\ hist'[Len(hist')].errAt = "none") =>
            /\ hist'[Len(hist')].res.allowed
            /\ hist'[Len(hist')].res.remaining = limit - count[p] - 1
            /\ \E e \in zsets'[key[p]] : e.s = now[p]]_<<pc, zsets, hist>>

\* C32: the steps of a denied check (purge, count, read of the oldest entry) insert no
\* entry and set no expiry: the purge removes only entries scored <= now - windowMs, the
\* other two leave the collection as it is, and the call returns from the read.
C32_DeniedFrame ==
  [][\A p \in Procs :
       /\ (pc[p] = "purge" /\ pc'[p] = "count") =>
            /\ zsets'[key[p]] \subseteq zsets[key[p]]
            /\ \A e \in zsets[key[p]] \ zsets'[key[p]] : e.s <= now[p] - windowMs
            /\ zexp'[key[p]] \in {zexp[key[p]], NoExpiry}
            /\ zexp'[key[p]] # zexp[key[p]] => zsets'[key[p]] = {}
       /\ ((pc[p] = "count" /\ pc'[p] = "oldest") \/ (pc[p] = "oldest" /\ pc'[p] = "idle")) =>
            /\ zsets' = zsets
            /\ zexp' = zexp
       /\ (pc[p] = "oldest" /\ pc'[p] # pc[p]) => pc'[p] = "idle"]_<<pc, zsets, zexp>>

\* A check that purged an entry is about to be denied.
C32_Witness ==
  \E p \in Procs : pc[p] = "oldest" /\ purged[p] > 0 /\ zsets[key[p]] # {}

(***************************************************************************)
(* Frame of getCachedResponse                                              *)
(***************************************************************************)
\* C33: no step of a lookup changes a cache entry, its value or its expiry time; the entry
\* of a prompt, while it is there, expires ttl seconds after the prompt's last accepted
\* store, however many lookups have hit it.
C33_LookupFrame ==
  /\ [][(\E p \in Procs : cpc'[p] # cpc[p]) => cache' = cache]_<<cpc, cache>>
  /\ []((/\ "ttl" \in DOMAIN lastStore
         /\ ~SetExRejects(lastStore.ttl)
         /\ cache[getCacheKey(Watched)] # NoEntry) =>
           /\ cache[getCacheKey(Watched)].val = lastStore.resp
           /\ cache[getCacheKey(Watched)].exp = lastStore.at + lastStore.ttl * MsPerSecond)

\* Two lookups have hit the entry after time passed since its store; its expiry time is the
\* one the store set.
C33_Witness ==
  /\ Hits = 2
  /\ "ttl" \in DOMAIN lastStore
  /\ clock > lastStore.at
  /\ \A p \in Procs : cpc[p] \in {"idle", "off"}
  /\ cache[getCacheKey(Watched)] = [val |-> lastStore.resp,
                                    exp |-> lastStore.at + lastStore.ttl * MsPerSecond]

(***************************************************************************)
(* Round trip of an event                                                  *)
(***************************************************************************)
\* The latest append has reached the store and recent(1) has been called since.
TripDone ==
  /\ appends > 0 /\ apc = "idle" /\ Len(appended) = appends
  /\ recent.err = "none" /\ recent.count = 1

\* C34: after a successful append(e) with no later append, recent(1) returns one event with
\* the store's id, the timestamp append assigned, and the identity, category, cached flag,
\* blocked flag and excerpt of e, an empty or missing excerpt and a missing flag being
\* returned as absent.
C34_RoundTrip ==
  TripDone =>
    LET e == TripEventOf(appends)
        sent == appended[Len(appended)]
    IN /\ Len(recent.res) = 1
       /\ recent.res[1].id = sent.id
       /\ recent.res[1].timestamp = ParseInt(sent.fields.timestamp)
       /\ recent.res[1].ip = e.ip
       /\ recent.res[1].type = e.type
       /\ recent.res[1].prompt = (IF "prompt" \in DOMAIN e /\ e.prompt # "" THEN e.prompt
                                  ELSE Undefined)
       /\ IF "cached" \in DOMAIN e THEN recent.res[1].cached = e.cached
          ELSE recent.res[1].cached \notin BOOLEAN
       /\ IF "blocked" \in DOMAIN e THEN recent.res[1].blocked = e.blocked
          ELSE recent.res[1].blocked \notin BOOLEAN

\* The same for the events that carry both flags.
C34_RoundTrip_Given ==
  (TripDone /\ {"cached", "blocked"} \subseteq DOMAIN TripEventOf(appends)) => C34_RoundTrip

(***************************************************************************)
(* Concurrent callers                                                      *)
(***************************************************************************)
\* C35: the events recent returns are ordered most-recent-first by timestamp: along the
\* returned sequence the timestamps never increase, also when the appends were concurrent.
C35_RecentByTimestamp ==
  (recent.err = "none") =>
    \A i, j \in 1..Len(recent.res) :
      i < j => recent.res[i].timestamp >= recent.res[j].timestamp

\* C36: with no store error, once all lookups have completed, hits + misses is the number
\* of lookups and hits is the number of lookups whose read found an entry.
C36_NoLostUpdate ==
  (\A p \in Procs : cpc[p] = "idle") =>
    /\ Hits + Misses = lookups
    /\ Hits = found

\* C37: once the checks of an identity have returned, its collection holds only entries of
\* checks that returned a counted admission (no more entries of a score than such checks
\* with that now), none of a check that returned the fail-open result, and the collection,
\* if not empty, carries an expiry.
C37_FailOpenInsertsNothing ==
  (pc[1] = "idle") =>
    /\ \A e \in zsets["X"] :
         Cardinality({o \in zsets["X"] : o.s = e.s})
           <= Cardinality({j \in 1..Len(hist) : /\ hist[j].errAt = "none"
                                                 /\ hist[j].res.allowed
                                                 /\ hist[j].now = e.s})
    /\ zsets["X"] # {} => zexp["X"] # NoExpiry

(***************************************************************************)
(* resetAt of a denial, count of getRateLimitStats                         *)
(***************************************************************************)
\* C38: for sequential checks of one identity with no store error, every result's resetAt
\* lies after the now of its call, and when a check is denied with resetAt = R, a later
\* check whose now is at least R, no check having been admitted in between, is admitted.
C38_ResetSufficient ==
  /\ \A j \in 1..Len(hist) : hist[j].res.resetAt > hist[j].now
  /\ \A j, k \in 1..Len(hist) :
       (/\ j < k
        /\ ~hist[j].res.allowed
        /\ hist[k].now >= hist[j].res.resetAt
        /\ \A i \in (j + 1)..(k - 1) : ~hist[i].res.allowed) =>
         hist[k].res.allowed

\* A check denied with a resetAt before now + windowMs, a second denial before that time,
\* and then a check at that time, which is admitted.
C38_Witness ==
  \E j, k \in 1..Len(hist) :
    /\ j + 1 < k
    /\ ~hist[j].res.allowed
    /\ hist[j].res.resetAt < hist[j].now + windowMs
    /\ ~hist[j + 1].res.allowed
    /\ hist[k].now = hist[j].res.resetAt
    /\ hist[k].res.allowed

\* C39: the count getRateLimitStats reports for an identity is the number of the identity's
\* entries that are live when it is read, those scored above now - windowMs, which is the
\* count a check at that moment would compare with limit.
C39_LiveCount ==
  [][(spc = "zcard" /\ spc' = "idle" /\ lastStats'.err = "none") =>
       \A i \in 1..Len(lastStats'.res.topConsumers) :
         LET c == lastStats'.res.topConsumers[i]
         IN c.requests = Cardinality({e \in zsets[c.ip] : e.s > clock - windowMs})]_<<spc, lastStats>>

====
